---- MODULE Spec2Model ----
(***************************************************************************)
(* Model of scripts/update-lambda-env-sms.py: the script fetches the       *)
(* environment variables of one Lambda function, overlays the SMS          *)
(* configuration on them, writes the merged set back as the function's     *)
(* whole environment and prints a report with masked secrets.              *)
(*                                                                         *)
(* A Python str is a sequence of one-character strings, a Python dict a    *)
(* function from its keys; a JSON text is a small syntax tree, so that     *)
(* json.dumps and json.loads are conversions and not the identity.         *)
(***************************************************************************)
EXTENDS Integers, Sequences, FiniteSets, TLC

\* ------------------------------------------------------------ bounds

\* How many times an external writer may change the remote record in a run.
MaxExternalWrites == 1

\* ------------------------------------------------------------ strings

\* The characters of the keys, in ascending code point order.
KeyAlphabet ==
    <<"0", "1", "2", "3", "4", "5", "6", "7", "8", "9", "A", "B", "C", "D",
      "E", "F", "G", "H", "I", "J", "K", "L", "M", "N", "O", "P", "Q", "R",
      "S", "T", "U", "V", "W", "X", "Y", "Z", "_", "a", "b", "c", "d", "e",
      "f", "g", "h", "i", "j", "k", "l", "m", "n", "o", "p", "q", "r", "s",
      "t", "u", "v", "w", "x", "y", "z">>

\* The rank of a character in code point order.
Ord(c) == CHOOSE i \in 1..Len(KeyAlphabet) : KeyAlphabet[i] = c

\* Python's str < str: lexicographic by code point, a proper prefix first.
StrLess(a, b) ==
    \E i \in 1..(Len(b)) :
        /\ \A j \in 1..(i - 1) : j <= Len(a) /\ a[j] = b[j]
        /\ \/ i = Len(a) + 1
           \/ i <= Len(a) /\ Ord(a[i]) < Ord(b[i])

\* sorted(keys): the keys in ascending order.
RECURSIVE sorted(_)
sorted(S) ==
    IF S = {} THEN <<>>
    ELSE LET m == CHOOSE x \in S : \A y \in S \ {x} : StrLess(x, y)
         IN  <<m>> \o sorted(S \ {m})

\* Python's `sub in s` on strings: sub occurs as a contiguous substring.
Contains(s, sub) ==
    \E i \in 1..(Len(s) - Len(sub) + 1) : SubSeq(s, i, i + Len(sub) - 1) = sub

\* Python's s[:n].
Prefix(s, n) == SubSeq(s, 1, IF Len(s) < n THEN Len(s) ELSE n)

\* ------------------------------------------------------------ constants

function_name == "scrapmate-node-api-production"
region == "ap-south-1"

SMS_API_URL_NEW ==
    <<"S", "M", "S", "_", "A", "P", "I", "_", "U", "R", "L", "_", "N", "E", "W">>
SMS_API_ENITYID ==
    <<"S", "M", "S", "_", "A", "P", "I", "_", "E", "N", "I", "T", "Y", "I", "D">>
SMS_API_TOKEN ==
    <<"S", "M", "S", "_", "A", "P", "I", "_", "T", "O", "K", "E", "N">>
SMS_API_KEY ==
    <<"S", "M", "S", "_", "A", "P", "I", "_", "K", "E", "Y">>
SMS_HEADER_CENTER_ID ==
    <<"S", "M", "S", "_", "H", "E", "A", "D", "E", "R", "_", "C", "E", "N",
      "T", "E", "R", "_", "I", "D">>

\* The five keys of the SMS configuration.
SmsKeys ==
    {SMS_API_URL_NEW, SMS_API_ENITYID, SMS_API_TOKEN, SMS_API_KEY,
     SMS_HEADER_CENTER_ID}

\* The literal sms_config of the script.
SmsConfigLiteral ==
    [k \in SmsKeys |->
        CASE k = SMS_API_URL_NEW ->
               <<"h", "t", "t", "p", ":", "/", "/", "4", "s", "m", "s", ".",
                 "a", "l", "p", "-", "t", "s", ".", "c", "o", "m", "/", "a",
                 "p", "i", "/", "s", "m", "s", "/", "v", "1", ".", "0", "/",
                 "s", "e", "n", "d", "-", "s", "m", "s">>
          [] k = SMS_API_ENITYID ->
               <<"1", "7", "0", "1", "1", "7", "3", "3", "8", "9", "5", "6",
                 "3", "9", "4", "5", "5", "4", "5">>
          [] k = SMS_API_TOKEN ->
               <<"E", "V", "L", "Z", "8", "2", "6", "7", "T", "M", "Y", "1",
                 "O", "2", "Z">>
          [] k = SMS_API_KEY ->
               <<"/", "B", "R", "2", "+", "k", ";", "L", "(", "-", "a", "P",
                 "K", "A", "@", "r", "%", "5", "S", "O", "*", "G", "z", "c",
                 "C", "m", "8", "&", "H", "g", "6", "o">>
          [] OTHER ->
               <<"S", "C", "R", "P", "M", "T">>]

\* The substrings of a key's name that make its value a secret.
SensitiveWords ==
    {<<"K", "E", "Y">>, <<"T", "O", "K", "E", "N">>,
     <<"S", "E", "C", "R", "E", "T">>, <<"P", "R", "I", "V", "A", "T", "E">>}

\* ------------------------------------------------------------ the remote record

\* Names a remote environment may hold: one whose value is no secret (it
\* would be one if the match ignored case), a secret one, and one of the SMS
\* keys (so that the overlay has a collision).
EnvKeys ==
    {<<"a", "p", "i", "_", "k", "e", "y">>,
     <<"A", "P", "I", "_", "T", "O", "K", "E", "N">>,
     SMS_API_KEY}

\* Values a remote variable may hold: short ones, one longer than the mask
\* threshold, and one of thirteen characters ending in three dots.
EnvValues ==
    {<<"b", "a", "r">>,
     <<"a", "b", "c", "d", "e", "f", "g", "h", "i", "j", "k">>,
     <<"a", "b", "c", "d", "e", "f", "g", "h", "i", "j", ".", ".", ".">>}

\* Every Environment Set over these names and values.
EnvSets == UNION {[S -> EnvValues] : S \in SUBSET EnvKeys}

\* The record held by the provider: an Environment Set.
VARIABLES remote,          \* the function's environment at the provider
          events,          \* history: every provider call and external write
          ext_writes       \* how many external writes have happened

\* The script's own state.
VARIABLES pc,              \* the statement the script is about to run
          sms_config,      \* line 15
          result,          \* line 25
          current_env,     \* line 39
          updated_env,     \* line 43
          env_json_str,    \* line 49
          update_result,   \* line 50
          updated_config,  \* line 63
          sys_stdout,      \* the lines printed to standard output
          sys_stderr,      \* the lines written to standard error
          exit_status      \* <<>> while running, <<status>> once terminated

vars ==
    <<remote, events, ext_writes, pc, sms_config, result, current_env,
      updated_env, env_json_str, update_result, updated_config, sys_stdout,
      sys_stderr, exit_status>>

\* A name that is not bound yet.
Unset == [unset |-> TRUE]

\* ------------------------------------------------------------ JSON

JObject(members) == [kind |-> "object", members |-> members]
JString(text) == [kind |-> "string", text |-> text]
JNull == [kind |-> "null"]
JArray == [kind |-> "array"]
\* A text that is no JSON document (the empty output, a truncated one).
JInvalid == [kind |-> "invalid"]

\* The JSON object of a mapping from names to strings.
JsonOfEnv(env) == JObject({<<k, JString(env[k])>> : k \in DOMAIN env})

\* The Python value of a JSON document: a dict for an object (of the values of
\* its members), a str for a string.
RECURSIVE PyValue(_)
PyValue(doc) ==
    CASE doc.kind = "object" ->
           [n \in {m[1] : m \in doc.members} |->
               PyValue((CHOOSE m \in doc.members : m[1] = n)[2])]
      [] doc.kind = "string" -> doc.text
      [] OTHER -> <<>>

\* The Python type of the value of a JSON document.
PyType(doc) ==
    CASE doc.kind = "object" -> "dict"
      [] doc.kind = "string" -> "str"
      [] doc.kind = "array" -> "list"
      [] OTHER -> "NoneType"

\* json.loads(text): raises on a text that is no JSON document, else the
\* Python object of the document.
json_loads(doc) ==
    [raised |-> doc.kind = "invalid",
     type |-> PyType(doc),
     value |-> PyValue(doc)]

\* Mutant of json_dumps: the payload holds the SMS configuration alone.
json_dumps_patch_only(env) == JObject({<<"Variables", JsonOfEnv(sms_config)>>})

\* json.dumps({"Variables": env}) of line 49.
json_dumps(env) == JObject({<<"Variables", JsonOfEnv(env)>>})

\* Whether len(obj) is defined.
HasLen(obj) == obj.type \in {"dict", "str", "list"}

\* len(obj) of a dict, a str or a list.
len(obj) == IF obj.type = "dict" THEN Cardinality(DOMAIN obj.value)
            ELSE Len(obj.value)

\* ------------------------------------------------------------ the provider

\* The error texts and the non-zero statuses of a failed command.
ErrorTexts == {"AccessDeniedException", "ResourceNotFoundException"}
FailureCodes == {254, 255}

\* What a command that exits zero may print instead of the mapping.
MalformedEnvOutputs == {JInvalid, JNull, JArray, JString(<<"b", "a", "r">>)}

\* What a failed command may leave on its standard output: nothing, or a
\* document (the script must not look at it).
FailedOutputs(doc) == {JInvalid, doc}

\* A finished command, as subprocess.run returns it.
CompletedProcess(rc, out, err) ==
    [returncode |-> rc, stdout |-> out, stderr |-> err]

\* aws lambda get-function-configuration --query Environment.Variables:
\* every way the command may end when the record holds env.
GetFunctionConfiguration(env) ==
    {CompletedProcess(0, d, "") : d \in {JsonOfEnv(env)} \cup MalformedEnvOutputs}
    \cup {CompletedProcess(rc, d, t) :
                rc \in FailureCodes, d \in FailedOutputs(JObject({})), t \in ErrorTexts}

\* The configuration as the update command prints it.
Confirmation(env) ==
    JObject({<<"Environment", JObject({<<"Variables", JsonOfEnv(env)>>})>>})

\* What a successful update prints: the new configuration, or a text the
\* script cannot use.
UpdateOutputs(env) == {Confirmation(env), JObject({}), JInvalid}

\* aws lambda update-function-configuration --environment payload: every way
\* the command may end. A success replaces the whole environment by the
\* payload's Variables; a failure may or may not have replaced it.
UpdateFunctionConfiguration(env, payload) ==
    LET sent == PyValue(payload)["Variables"]
    IN  {[proc |-> CompletedProcess(0, d, ""), remote |-> sent] :
            d \in UpdateOutputs(sent)}
        \cup UNION {{[proc |-> CompletedProcess(rc, d, t), remote |-> e] :
                        rc \in FailureCodes, t \in ErrorTexts,
                        d \in FailedOutputs(Confirmation(e))} : e \in {env, sent}}

\* One entry of the history.
Event(actor, op, rc, payload, env) ==
    [actor |-> actor, op |-> op, function_name |-> function_name,
     region |-> region, returncode |-> rc, payload |-> payload, remote |-> env]

\* ------------------------------------------------------------ the script

\* One printed line: what it says and the value formatted into it.
Line(marker, arg) == [marker |-> marker, arg |-> arg]

\* Mutant of Overlay: {**b, **a}, the fetched value wins on a collision.
OverlayLeftWins(a, b) ==
    [k \in DOMAIN a \cup DOMAIN b |-> IF k \in DOMAIN a THEN a[k] ELSE b[k]]

\* Mutant of Overlay: the keys of exactly one of the two (a.keys() ^ b.keys()).
OverlayXor(a, b) ==
    [k \in (DOMAIN a \ DOMAIN b) \cup (DOMAIN b \ DOMAIN a) |->
        IF k \in DOMAIN b THEN b[k] ELSE a[k]]

\* {**a, **b}: the keys of both, b's value where both have the key.
Overlay(a, b) ==
    [k \in DOMAIN a \cup DOMAIN b |-> IF k \in DOMAIN b THEN b[k] ELSE a[k]]

\* Line 68: whether the key's name marks a secret.
IsSensitive(key) == \E w \in SensitiveWords : Contains(key, w)

\* Lines 68-71: what the report shows for a variable.
display_value(key, value) ==
    IF IsSensitive(key)
    THEN IF Len(value) > 10 THEN Prefix(value, 10) \o <<".", ".", ".">>
         ELSE <<"*", "*", "*">>
    ELSE value

\* Lines 66-72: one line per variable, in the order of the sorted keys.
ReportLines(variables) ==
    LET keys == sorted(DOMAIN variables)
    IN  [i \in 1..Len(keys) |->
            Line("report", <<keys[i], display_value(keys[i], variables[keys[i]])>>)]

\* An uncaught exception: the traceback goes to standard error and the
\* interpreter exits with status 1.
Raise(exception) ==
    /\ sys_stderr' = Append(sys_stderr, Line("Traceback", exception))
    /\ exit_status' = <<1>>
    /\ pc' = "traceback"

Init ==
    /\ remote \in EnvSets
    /\ events = <<>>
    /\ ext_writes = 0
    /\ pc = "fetch"
    /\ sms_config = SmsConfigLiteral
    /\ result = Unset
    /\ current_env = Unset
    /\ updated_env = Unset
    /\ env_json_str = Unset
    /\ update_result = Unset
    /\ updated_config = Unset
    /\ sys_stdout = <<>>
    /\ sys_stderr = <<>>
    /\ exit_status = <<>>

\* Lines 24-33: print the progress line and run the read command.
Fetch ==
    /\ pc = "fetch"
    /\ \E r \in GetFunctionConfiguration(remote) :
          /\ result' = r
          /\ events' = Append(events,
                 Event("script", "get-function-configuration", r.returncode,
                       Unset, remote))
    /\ sys_stdout' = Append(sys_stdout, Line("fetching", function_name))
    /\ pc' = "fetch_check"
    /\ UNCHANGED <<remote, ext_writes, sms_config, current_env, updated_env,
                   env_json_str, update_result, updated_config, sys_stderr,
                   exit_status>>

\* Mutant of FetchCheck: the error is printed and the script goes on.
FetchCheckNoExit ==
    /\ pc = "fetch_check"
    /\ IF result.returncode # 0
       THEN sys_stdout' = Append(sys_stdout, Line("fetch_error", result.stderr))
       ELSE UNCHANGED sys_stdout
    /\ pc' = "parse"
    /\ UNCHANGED <<remote, events, ext_writes, sms_config, result, current_env,
                   updated_env, env_json_str, update_result, updated_config,
                   sys_stderr, exit_status>>

\* Lines 35-37: a failed read is printed and ends the run with status 1.
FetchCheck ==
    /\ pc = "fetch_check"
    /\ IF result.returncode # 0
       THEN /\ sys_stdout' = Append(sys_stdout, Line("fetch_error", result.stderr))
            /\ exit_status' = <<1>>
            /\ pc' = "exit_after_fetch"
       ELSE /\ pc' = "parse"
            /\ UNCHANGED <<sys_stdout, exit_status>>
    /\ UNCHANGED <<remote, events, ext_writes, sms_config, result, current_env,
                   updated_env, env_json_str, update_result, updated_config,
                   sys_stderr>>

\* Lines 39-40: parse the output and print how many variables it holds.
ParseFetch ==
    /\ pc = "parse"
    /\ LET r == json_loads(result.stdout)
       IN  IF r.raised
           THEN /\ Raise("JSONDecodeError")
                /\ UNCHANGED <<current_env, sys_stdout>>
           ELSE /\ current_env' = [type |-> r.type, value |-> r.value]
                /\ IF HasLen(current_env')
                   THEN /\ sys_stdout' =
                              Append(sys_stdout, Line("current_count", len(current_env')))
                        /\ pc' = "merge"
                        /\ UNCHANGED <<sys_stderr, exit_status>>
                   ELSE /\ Raise("TypeError")
                        /\ UNCHANGED sys_stdout
    /\ UNCHANGED <<remote, events, ext_writes, sms_config, result, updated_env,
                   env_json_str, update_result, updated_config>>

\* Mutant of Merge: whatever is not a dict counts as an empty one.
MergeLenient ==
    /\ pc = "merge"
    /\ updated_env' =
          Overlay(IF current_env.type = "dict" THEN current_env.value ELSE <<>>,
                  sms_config)
    /\ sys_stdout' =
          sys_stdout \o
          <<Line("updated_count", Cardinality(DOMAIN updated_env')),
            Line("added", "")>>
    /\ pc' = "submit"
    /\ UNCHANGED <<remote, events, ext_writes, sms_config, result, current_env,
                   env_json_str, update_result, updated_config, sys_stderr,
                   exit_status>>

\* Lines 42-45: overlay the SMS configuration on the fetched variables.
Merge ==
    /\ pc = "merge"
    /\ IF current_env.type = "dict"
       THEN /\ updated_env' = Overlay(current_env.value, sms_config)
            /\ sys_stdout' =
                  sys_stdout \o
                  <<Line("updated_count", Cardinality(DOMAIN updated_env')),
                    Line("added", "")>>
            /\ pc' = "submit"
            /\ UNCHANGED <<sys_stderr, exit_status>>
       ELSE /\ Raise("TypeError")
            /\ UNCHANGED <<updated_env, sys_stdout>>
    /\ UNCHANGED <<remote, events, ext_writes, sms_config, result, current_env,
                   env_json_str, update_result, updated_config>>

\* Mutant of Submit: the payload is merged from the record as it is now, as
\* if the script read it again right before the update.
SubmitRefetch ==
    /\ pc = "submit"
    /\ env_json_str' = json_dumps(Overlay(remote, sms_config))
    /\ \E o \in UpdateFunctionConfiguration(remote, env_json_str') :
          /\ update_result' = o.proc
          /\ remote' = o.remote
          /\ events' = Append(events,
                 Event("script", "update-function-configuration",
                       o.proc.returncode, env_json_str', o.remote))
    /\ sys_stdout' = Append(sys_stdout, Line("updating", ""))
    /\ pc' = "submit_check"
    /\ UNCHANGED <<ext_writes, sms_config, result, current_env, updated_env,
                   updated_config, sys_stderr, exit_status>>

\* Lines 47-57: serialise the merged set and run the update command with it.
Submit ==
    /\ pc = "submit"
    /\ env_json_str' = json_dumps(updated_env)
    /\ \E o \in UpdateFunctionConfiguration(remote, env_json_str') :
          /\ update_result' = o.proc
          /\ remote' = o.remote
          /\ events' = Append(events,
                 Event("script", "update-function-configuration",
                       o.proc.returncode, env_json_str', o.remote))
    /\ sys_stdout' = Append(sys_stdout, Line("updating", ""))
    /\ pc' = "submit_check"
    /\ UNCHANGED <<ext_writes, sms_config, result, current_env, updated_env,
                   updated_config, sys_stderr, exit_status>>

\* Mutant of SubmitCheck: the error is printed and the script goes on.
SubmitCheckNoExit ==
    /\ pc = "submit_check"
    /\ IF update_result.returncode # 0
       THEN sys_stdout' =
               Append(sys_stdout, Line("update_error", update_result.stderr))
       ELSE UNCHANGED sys_stdout
    /\ pc' = "report"
    /\ UNCHANGED <<remote, events, ext_writes, sms_config, result, current_env,
                   updated_env, env_json_str, update_result, updated_config,
                   sys_stderr, exit_status>>

\* Mutant of SubmitCheck: a failed update ends the run with sys.exit(0).
SubmitCheckExitZero ==
    /\ pc = "submit_check"
    /\ IF update_result.returncode # 0
       THEN /\ sys_stdout' =
                  Append(sys_stdout, Line("update_error", update_result.stderr))
            /\ exit_status' = <<0>>
            /\ pc' = "exit_after_submit"
       ELSE /\ pc' = "report"
            /\ UNCHANGED <<sys_stdout, exit_status>>
    /\ UNCHANGED <<remote, events, ext_writes, sms_config, result, current_env,
                   updated_env, env_json_str, update_result, updated_config,
                   sys_stderr>>

\* Lines 59-61: a failed update is printed and ends the run with status 1.
SubmitCheck ==
    /\ pc = "submit_check"
    /\ IF update_result.returncode # 0
       THEN /\ sys_stdout' =
                  Append(sys_stdout, Line("update_error", update_result.stderr))
            /\ exit_status' = <<1>>
            /\ pc' = "exit_after_submit"
       ELSE /\ pc' = "report"
            /\ UNCHANGED <<sys_stdout, exit_status>>
    /\ UNCHANGED <<remote, events, ext_writes, sms_config, result, current_env,
                   updated_env, env_json_str, update_result, updated_config,
                   sys_stderr>>

\* Whether updated_config["Environment"]["Variables"] of line 66 is defined.
HasVariables(obj) ==
    /\ obj.type = "dict"
    /\ "Environment" \in DOMAIN obj.value
    /\ "Variables" \in DOMAIN obj.value["Environment"]

\* Lines 63-72: parse the confirmation and print the report; the script then
\* ends, with status 0.
Report ==
    /\ pc = "report"
    /\ LET r == json_loads(update_result.stdout)
       IN  IF r.raised
           THEN /\ Raise("JSONDecodeError")
                /\ UNCHANGED <<updated_config, sys_stdout>>
           ELSE /\ updated_config' = [type |-> r.type, value |-> r.value]
                /\ IF HasVariables(updated_config')
                   THEN /\ sys_stdout' =
                              sys_stdout
                              \o <<Line("success", ""), Line("report_header", "")>>
                              \o ReportLines(updated_config'.value["Environment"]["Variables"])
                        /\ exit_status' = <<0>>
                        /\ pc' = "completed"
                        /\ UNCHANGED sys_stderr
                   ELSE /\ sys_stdout' =
                              sys_stdout
                              \o <<Line("success", ""), Line("report_header", "")>>
                        /\ Raise("KeyError")
    /\ UNCHANGED <<remote, events, ext_writes, sms_config, result, current_env,
                   updated_env, env_json_str, update_result>>

\* Whether two Environment Sets differ in exactly one name: it is in one of
\* them only, or has another value.
OneKeyApart(a, b) ==
    Cardinality({k \in DOMAIN a \cup DOMAIN b :
                    \/ k \notin DOMAIN a
                    \/ k \notin DOMAIN b
                    \/ a[k] # b[k]}) = 1

\* Another writer sets or removes one variable of the record while the script runs: the script
\* takes no lock.
ExternalWrite ==
    /\ exit_status = <<>>
    /\ ext_writes < MaxExternalWrites
    /\ \E e \in EnvSets :
          /\ OneKeyApart(remote, e)
          /\ remote' = e
          /\ events' = Append(events, Event("external", "write", 0, Unset, e))
    /\ ext_writes' = ext_writes + 1
    /\ UNCHANGED <<pc, sms_config, result, current_env, updated_env,
                   env_json_str, update_result, updated_config, sys_stdout,
                   sys_stderr, exit_status>>

Next ==
    \/ Fetch
    \/ FetchCheck
    \/ ParseFetch
    \/ Merge
    \/ Submit
    \/ SubmitCheck
    \/ Report
    \/ ExternalWrite

Spec == Init /\ [][Next]_vars

\* ------------------------------------------------------------ the merge alone

\* Patches other than the script's: over a few names, with short values.
PatchKeys ==
    {SMS_API_KEY, SMS_API_TOKEN, <<"A", "P", "I", "_", "T", "O", "K", "E", "N">>}
PatchValues == {<<"X">>, <<"b", "a", "r">>}
Patches == UNION {[S -> PatchValues] : S \in SUBSET PatchKeys} \cup {SmsConfigLiteral}

\* The script at line 42, with any mapping fetched and any patch.
InitMerge ==
    /\ remote \in EnvSets
    /\ sms_config \in Patches
    /\ events = <<Event("script", "get-function-configuration", 0, Unset, remote)>>
    /\ ext_writes = 0
    /\ pc = "merge"
    /\ result = CompletedProcess(0, JsonOfEnv(remote), "")
    /\ current_env = [type |-> "dict", value |-> remote]
    /\ updated_env = Unset
    /\ env_json_str = Unset
    /\ update_result = Unset
    /\ updated_config = Unset
    /\ sys_stdout = <<Line("fetching", function_name),
                      Line("current_count", Cardinality(DOMAIN remote))>>
    /\ sys_stderr = <<>>
    /\ exit_status = <<>>

NextMerge == Merge

SpecMerge == InitMerge /\ [][NextMerge]_vars

\* ------------------------------------------------------------ claims

\* The positions of the script's update calls in the history.
UpdateCalls ==
    {i \in DOMAIN events : events[i].op = "update-function-configuration"}

\* The positions of the script's read calls in the history.
FetchCalls ==
    {i \in DOMAIN events : events[i].op = "get-function-configuration"}

\* The lines of the report printed so far.
ReportedLines ==
    {sys_stdout[i] : i \in {j \in DOMAIN sys_stdout : sys_stdout[j].marker = "report"}}

\* C1: once merged, updated_env holds every key of the fetched set that the
\* patch lacks with the fetched value, every key of the patch with the patch's
\* value, and no other key.
C1_MergeContents ==
    pc = "submit" =>
        /\ DOMAIN updated_env = DOMAIN current_env.value \cup DOMAIN sms_config
        /\ \A k \in DOMAIN current_env.value \ DOMAIN sms_config :
              updated_env[k] = current_env.value[k]
        /\ \A k \in DOMAIN sms_config : updated_env[k] = sms_config[k]

\* A merge where the patch adds a key, overrides another with a different
\* value and leaves a third alone.
C1_Witness ==
    /\ pc = "submit"
    /\ DOMAIN sms_config \ DOMAIN current_env.value # {}
    /\ DOMAIN current_env.value \ DOMAIN sms_config # {}
    /\ \E k \in DOMAIN current_env.value \cap DOMAIN sms_config :
          current_env.value[k] # sms_config[k]

\* C2: overlaying the patch on the merged set again changes nothing:
\* merge(merge(E, P), P) = merge(E, P).
C2_MergeIdempotent ==
    pc = "submit" => Overlay(updated_env, sms_config) = updated_env

\* A merge that changed the fetched set, with a collision and a key of the
\* fetched set the patch lacks.
C2_Witness ==
    /\ pc = "submit"
    /\ updated_env # current_env.value
    /\ DOMAIN current_env.value \cap DOMAIN sms_config # {}
    /\ DOMAIN current_env.value \ DOMAIN sms_config # {}
    /\ Overlay(updated_env, sms_config) = updated_env

\* C3: the Variables of every update call's payload hold every key of the set
\* the read call returned, the five SMS keys with the values of sms_config,
\* and every other key with its fetched value.
C3_SubmittedSuperset ==
    \A i \in UpdateCalls :
        LET sent == PyValue(events[i].payload)["Variables"]
            fetched == PyValue(result.stdout)
        IN  /\ DOMAIN fetched \subseteq DOMAIN sent
            /\ \A k \in SmsKeys : k \in DOMAIN sent /\ sent[k] = SmsConfigLiteral[k]
            /\ \A k \in DOMAIN fetched \ SmsKeys : sent[k] = fetched[k]

\* An update call whose fetched set held an SMS key with another value and
\* two keys that are not SMS keys.
C3_Witness ==
    /\ UpdateCalls # {}
    /\ SMS_API_KEY \in DOMAIN current_env.value
    /\ current_env.value[SMS_API_KEY] # SmsConfigLiteral[SMS_API_KEY]
    /\ Cardinality(DOMAIN current_env.value \ SmsKeys) = 2

\* C4: once the read call has returned a non-zero status, no update call is
\* ever made, the script is at the check or has exited there, and its exit
\* status is 1.
C4_FetchFailureStops ==
    (result # Unset /\ result.returncode # 0) =>
        /\ UpdateCalls = {}
        /\ pc \in {"fetch_check", "exit_after_fetch"}
        /\ exit_status \in {<<>>, <<1>>}
        /\ pc = "exit_after_fetch" <=> exit_status = <<1>>

\* The script has exited after a failed read that left a usable document on
\* its standard output.
C4_Witness ==
    /\ pc = "exit_after_fetch"
    /\ result.returncode # 0
    /\ result.stdout.kind = "object"
    /\ exit_status = <<1>>

\* C5: when a provider call failed, its error text, after the failure marker,
\* is on standard error and not on standard output.
C5_ErrorOnStderr ==
    /\ pc = "exit_after_fetch" =>
          /\ \E i \in DOMAIN sys_stderr :
                sys_stderr[i] = Line("fetch_error", result.stderr)
          /\ \A i \in DOMAIN sys_stdout : sys_stdout[i].marker # "fetch_error"
    /\ pc = "exit_after_submit" =>
          /\ \E i \in DOMAIN sys_stderr :
                sys_stderr[i] = Line("update_error", update_result.stderr)
          /\ \A i \in DOMAIN sys_stdout : sys_stdout[i].marker # "update_error"

\* C6: the report never shows the whole value of a variable whose name holds
\* KEY, TOKEN, SECRET or PRIVATE and whose value is longer than 10 characters:
\* it shows the first 10 characters and three dots.
C6_MaskNeverFull ==
    \A l \in ReportedLines :
        LET key == l.arg[1]
            shown == l.arg[2]
            value == updated_config.value["Environment"]["Variables"][key]
        IN  (IsSensitive(key) /\ Len(value) > 10) =>
                /\ shown = Prefix(value, 10) \o <<".", ".", ".">>
                /\ shown # value

\* C7: once the update call has returned a non-zero status, the script is at
\* the check or has exited there with status 1; it parses no confirmation,
\* prints no report and makes no further provider call.
C7_SubmitFailureStops ==
    (update_result # Unset /\ update_result.returncode # 0) =>
        /\ pc \in {"submit_check", "exit_after_submit"}
        /\ exit_status \in {<<>>, <<1>>}
        /\ pc = "exit_after_submit" <=> exit_status = <<1>>
        /\ updated_config = Unset
        /\ \A i \in DOMAIN sys_stdout :
              sys_stdout[i].marker \notin {"success", "report_header", "report"}
        /\ Cardinality(FetchCalls) = 1
        /\ Cardinality(UpdateCalls) = 1
        /\ events[Len(events)].actor = "script" =>
              events[Len(events)].op = "update-function-configuration"

\* The script has exited after a failed update that left a usable
\* confirmation on its standard output.
C7_Witness ==
    /\ pc = "exit_after_submit"
    /\ update_result.returncode # 0
    /\ update_result.stdout.kind = "object"
    /\ exit_status = <<1>>

\* Where a terminated run has ended and with which status, given the points
\* at which a run may end.
EndsAtOneOf(points) ==
    exit_status # <<>> =>
        /\ pc \in points
        /\ exit_status \in {<<0>>, <<1>>}
        /\ Cardinality(FetchCalls) = 1
        /\ Cardinality(UpdateCalls) <= 1
        /\ pc = "exit_after_fetch" =>
              result.returncode # 0 /\ UpdateCalls = {} /\ exit_status = <<1>>
        /\ pc = "exit_after_submit" =>
              /\ result.returncode = 0
              /\ update_result.returncode # 0
              /\ exit_status = <<1>>
        /\ pc = "completed" =>
              /\ result.returncode = 0
              /\ update_result.returncode = 0
              /\ ReportedLines # {}
              /\ exit_status = <<0>>
        /\ pc = "traceback" =>
              /\ result.returncode = 0
              /\ update_result # Unset => update_result.returncode = 0
              /\ sys_stderr # <<>>
              /\ exit_status = <<1>>

\* C8 as claimed: a run ends at one of three points, after a failed read,
\* after a failed update or after the report, with status 1 if either call
\* failed and 0 if both succeeded and the report was reached.
C8_ThreeEndPoints ==
    EndsAtOneOf({"exit_after_fetch", "exit_after_submit", "completed"})

\* C8 as amended: a run ends at one of four points, the three above or an
\* uncaught exception on the output of a call that returned zero; the status
\* is 1 at each of them but the report, where it is 0.
C8_FourEndPoints ==
    EndsAtOneOf({"exit_after_fetch", "exit_after_submit", "completed", "traceback"})

\* A run ended by an uncaught exception after both calls returned zero.
C8_Witness ==
    /\ pc = "traceback"
    /\ exit_status = <<1>>
    /\ result.returncode = 0
    /\ update_result # Unset
    /\ update_result.returncode = 0

\* C9: a successful update leaves the record at merge(fetched, patch), the
\* set fetched being the record as it was at the read call, whatever was
\* written to the record in between.
C9_StaleFullReplacement ==
    \A i \in UpdateCalls :
        events[i].returncode = 0 =>
            \E j \in FetchCalls :
                /\ j < i
                /\ events[i].remote = Overlay(events[j].remote, SmsConfigLiteral)

\* A lost update: a key that another writer added between the read and the
\* update is gone from the record after the successful update.
C9_Witness ==
    \E j \in FetchCalls, w \in DOMAIN events, i \in UpdateCalls :
        /\ j < w /\ w < i /\ i = Len(events)
        /\ events[w].actor = "external"
        /\ events[i].returncode = 0
        /\ remote = events[i].remote
        /\ \E k \in DOMAIN events[w].remote \ DOMAIN events[j].remote :
              k \notin DOMAIN remote

\* C10: the script makes at most one update call, and only after a read call
\* that returned zero and printed a mapping; after a read call that returned
\* zero and printed anything else, it makes none and ends by an uncaught
\* exception.
C10_SubmitOnlyAfterMapping ==
    /\ Cardinality(UpdateCalls) <= 1
    /\ UpdateCalls # {} =>
          /\ result.returncode = 0
          /\ result.stdout.kind = "object"
          /\ current_env.type = "dict"
    /\ (result # Unset /\ result.returncode = 0 /\ result.stdout.kind # "object") =>
          /\ UpdateCalls = {}
          /\ pc \in {"fetch_check", "parse", "merge", "traceback"}
          /\ exit_status # <<>> => pc = "traceback" /\ exit_status = <<1>>

\* The read call printed a list, which has a length, and the run ended at
\* the merge without an update call.
C10_Witness ==
    /\ result # Unset
    /\ result.returncode = 0
    /\ result.stdout.kind = "array"
    /\ current_env # Unset
    /\ pc = "traceback"
    /\ UpdateCalls = {}

====
